---- MODULE Spec2Model ----
(***************************************************************************)
(* Rate acquisition and derivation of app2.py: get_exchange_rate, the      *)
(* yesterday comparison of main, get_historical_rates and the direction    *)
(* computation of create_currency_chart.                                   *)
(*                                                                         *)
(* Calendar dates are day numbers (integers); the wall clock `now` is the  *)
(* day number datetime.now() falls in.  JSON numbers are integers; a       *)
(* quotient a / b is kept as the exact fraction [n |-> a, d |-> b].        *)
(***************************************************************************)
EXTENDS Integers, Sequences, FiniteSets, TLC

\* Largest window passed to get_historical_rates (main passes 30, line 400;
\* the default is 7): the runs cover every window 0..MaxDays.
MaxDays == 2
\* How many times the wall clock may cross midnight during one run.
MaxTicks == 1

----------------------------------------------------------------------------
\* JSON / Python values

Null == [t |-> "null", v |-> 0]
Unset == [t |-> "unset", v |-> 0]
Num(n) == [t |-> "num", v |-> n]

\* Values the data source may hold under body[base][quote].
Values == {Null} \cup {Num(n) : n \in -1..2}

\* Python truthiness of a fetched value (None and 0 are falsy).
Truthy(x) == x.t = "num" /\ x.v # 0

\* A float: a finite quotient n/d, or what numpy yields on division by zero.
Frac(n, d) == [t |-> "frac", n |-> n, d |-> d]
NaN == [t |-> "nan", n |-> 0, d |-> 1]
PosInf == [t |-> "inf", n |-> 1, d |-> 1]
NegInf == [t |-> "inf", n |-> -1, d |-> 1]
FUnset == [t |-> "unset", n |-> 0, d |-> 1]

\* x > 0 for a float x (NaN > 0 is False).
Positive(x) ==
    \/ x.t = "inf" /\ x.n > 0
    \/ x.t = "frac" /\ ((x.n > 0 /\ x.d > 0) \/ (x.n < 0 /\ x.d < 0))

----------------------------------------------------------------------------
\* HTTP responses (the inputs of the model)

BadBody == [k |-> "bad", val |-> Null]
NoKeyBody == [k |-> "nokey", val |-> Null]
OkBody(x) == [k |-> "ok", val |-> x]

Bodies == {BadBody, NoKeyBody} \cup {OkBody(x) : x \in Values}

\* A 200 answer carries any body; an error answer (404) carries an error page
\* or, for some hosts, a JSON document all the same.
Responses ==
    {[status |-> 200, body |-> b] : b \in Bodies}
    \cup {[status |-> 404, body |-> b] : b \in {BadBody, OkBody(Num(1))}}

NoResponse == [status |-> 0, body |-> BadBody]
\* requests.get raised (network error).
Raised == [status |-> -1, body |-> BadBody]

VARIABLES
    pc,             \* position in main / the function it is in
    now,            \* wall clock, as a day number
    ticks,          \* midnights crossed so far
    days,           \* window passed to get_historical_rates
    response,       \* local `response` of the fetch in progress
    reqs,           \* requests issued by the latest fetch, in order
    current_rate,   \* main: current_rate
    change,         \* main: change
    percent_change, \* main: percent_change
    change_line,    \* main: whether the "from yesterday" line was written
    i,              \* get_historical_rates: loop variable
    date,           \* get_historical_rates: date of this iteration
    dates,          \* get_historical_rates: dates
    rates,          \* get_historical_rates: rates
    attempted,      \* dates a per-day fetch was started for, in order
    fetched,        \* per-day fetch results, in order
    start,          \* wall clock at the first date computed by get_historical_rates
    chart           \* result of main's chart step

vars == <<pc, now, ticks, days, response, reqs, current_rate, change,
          percent_change, change_line, i, date, dates, rates, attempted,
          fetched, start, chart>>

mainVars == <<current_rate, change, percent_change, change_line>>
histVars == <<i, date, dates, rates, attempted, fetched, start>>

NoChart == [outcome |-> "none", direction |-> "", overall |-> NaN, pct |-> <<>>]

Req(site, host, out) == [site |-> site, host |-> host, out |-> out]

----------------------------------------------------------------------------
\* get_exchange_rate

\* Variants of the status test: inverted, and a fallback that is always tried.
NeedsFallbackInverted(resp) == resp.status = 200
NeedsFallbackAlways(resp) == TRUE

\* response.status_code != 200: go to the fallback mirror
NeedsFallback(resp) == resp.status # 200

\* requests.get(primary_url) and the status test.
GetExchangeRatePrimary ==
    /\ pc = "ger_primary"
    /\ \E out \in Responses \cup {Raised} :
        /\ reqs' = <<Req("latest", "primary", out)>>
        /\ IF out = Raised
             THEN /\ current_rate' = Null
                  /\ response' = response
                  /\ pc' = "main_if"
             ELSE /\ response' = out
                  /\ current_rate' = current_rate
                  /\ pc' = IF NeedsFallback(out) THEN "ger_fallback" ELSE "ger_parse"
    /\ UNCHANGED <<now, ticks, days, change, percent_change, change_line,
                   histVars, chart>>

\* requests.get(fallback_url)
GetExchangeRateFallback ==
    /\ pc = "ger_fallback"
    /\ \E out \in Responses \cup {Raised} :
        /\ reqs' = Append(reqs, Req("latest", "fallback", out))
        /\ IF out = Raised
             THEN /\ current_rate' = Null
                  /\ response' = response
                  /\ pc' = "main_if"
             ELSE /\ response' = out
                  /\ current_rate' = current_rate
                  /\ pc' = "ger_parse"
    /\ UNCHANGED <<now, ticks, days, change, percent_change, change_line,
                   histVars, chart>>

\* data = response.json(); data[from][to], whatever the status of `response`.
ParseLatest(resp) ==
    IF resp.body.k = "ok" THEN resp.body.val ELSE Null

GetExchangeRateParse ==
    /\ pc = "ger_parse"
    /\ current_rate' = ParseLatest(response)
    /\ pc' = "main_if"
    /\ UNCHANGED <<now, ticks, days, response, reqs, change, percent_change,
                   change_line, histVars, chart>>

----------------------------------------------------------------------------
\* main: current rate against yesterday's

\* if current_rate: ... yesterday = now - 1 day
MainCheckCurrent ==
    /\ pc = "main_if"
    /\ pc' = IF Truthy(current_rate) THEN "yd_primary" ELSE "done"
    /\ UNCHANGED <<now, ticks, days, response, reqs, mainVars, histVars, chart>>

\* Variant: a handler that only swallows the exception (except: pass).
YesterdayExceptPass(st) == st

\* except: change = 0; percent_change = 0   (st: the locals when it was raised)
YesterdayExcept(st) == [change |-> Num(0), percent_change |-> Frac(0, 1)]

\* Lines 371-375: the locals the try block leaves, and whether it raised.
\* json() raises on an unparseable body, the lookups on a missing key,
\* the subtraction on None, the division on 0 (after change was assigned).
YesterdayTry(cur, resp, st) ==
    IF resp.status = 200
      THEN IF resp.body.k # "ok" THEN [st |-> st, raised |-> TRUE]
           ELSE LET y == resp.body.val
                IN  IF y.t # "num" THEN [st |-> st, raised |-> TRUE]
                    ELSE IF y.v = 0
                      THEN [st |-> [st EXCEPT !.change = Num(cur.v - y.v)],
                            raised |-> TRUE]
                      ELSE [st |-> [change |-> Num(cur.v - y.v),
                                    percent_change |-> Frac((cur.v - y.v) * 100, y.v)],
                            raised |-> FALSE]
      ELSE [st |-> st, raised |-> FALSE]

YesterdayCompare(cur, resp, st) ==
    LET r == YesterdayTry(cur, resp, st)
    IN  IF r.raised THEN YesterdayExcept(r.st) ELSE r.st

Locals == [change |-> change, percent_change |-> percent_change]

YesterdayPrimary ==
    /\ pc = "yd_primary"
    /\ \E out \in Responses \cup {Raised} :
        /\ reqs' = <<Req("yesterday", "primary", out)>>
        /\ IF out = Raised
             THEN /\ change' = YesterdayExcept(Locals).change
                  /\ percent_change' = YesterdayExcept(Locals).percent_change
                  /\ response' = response
                  /\ pc' = "display"
             ELSE /\ response' = out
                  /\ UNCHANGED <<change, percent_change>>
                  /\ pc' = IF NeedsFallback(out) THEN "yd_fallback" ELSE "yd_parse"
    /\ UNCHANGED <<now, ticks, days, current_rate, change_line, histVars, chart>>

YesterdayFallback ==
    /\ pc = "yd_fallback"
    /\ \E out \in Responses \cup {Raised} :
        /\ reqs' = Append(reqs, Req("yesterday", "fallback", out))
        /\ IF out = Raised
             THEN /\ change' = YesterdayExcept(Locals).change
                  /\ percent_change' = YesterdayExcept(Locals).percent_change
                  /\ response' = response
                  /\ pc' = "display"
             ELSE /\ response' = out
                  /\ UNCHANGED <<change, percent_change>>
                  /\ pc' = "yd_parse"
    /\ UNCHANGED <<now, ticks, days, current_rate, change_line, histVars, chart>>

YesterdayParse ==
    /\ pc = "yd_parse"
    /\ LET r == YesterdayCompare(current_rate, response, Locals)
       IN  /\ change' = r.change
           /\ percent_change' = r.percent_change
    /\ pc' = "display"
    /\ UNCHANGED <<now, ticks, days, response, reqs, current_rate, change_line,
                   histVars, chart>>

\* if 'change' in locals() and 'percent_change' in locals(): write the line
ChangeShown(c, p) == c # Unset /\ p # FUnset

Display ==
    /\ pc = "display"
    /\ change_line' = IF ChangeShown(change, percent_change) THEN "shown" ELSE "none"
    /\ pc' = "hist_call"
    /\ UNCHANGED <<now, ticks, days, response, reqs, current_rate, change,
                   percent_change, histVars, chart>>

\* The wall clock crosses midnight.
Tick ==
    /\ pc # "done"
    /\ ticks < MaxTicks
    /\ now' = now + 1
    /\ ticks' = ticks + 1
    /\ UNCHANGED <<pc, days, response, reqs, mainVars, histVars, chart>>

----------------------------------------------------------------------------
\* get_historical_rates

\* rates = []; dates = []; for i in range(days, 0, -1)
HistCall ==
    /\ pc = "hist_call"
    /\ rates' = <<>>
    /\ dates' = <<>>
    /\ attempted' = <<>>
    /\ fetched' = <<>>
    /\ start' = now
    /\ i' = days
    /\ pc' = "hist_next"
    /\ UNCHANGED <<now, ticks, days, response, reqs, mainVars, date, chart>>

\* Variant: the offset i is dropped from the date.
IterDateNoOffset(clock, begin, k) == clock - 1

\* date = (datetime.now() - timedelta(days=i)): the clock is read on every iteration
IterDate(clock, begin, k) == clock - k

\* Loop head: the next i, or return dates, rates.
HistNext ==
    /\ pc = "hist_next"
    /\ IF i > 0
         THEN /\ date' = IterDate(now, start, i)
              /\ start' = IF i = days THEN now ELSE start
              /\ pc' = "hist_primary"
         ELSE /\ date' = date
              /\ start' = start
              /\ pc' = "main_chart"
    /\ UNCHANGED <<now, ticks, days, response, reqs, mainVars, i, dates, rates,
                   attempted, fetched, chart>>

\* except: continue
HistSkip(out) ==
    /\ fetched' = Append(fetched, [date |-> date, out |-> out])
    /\ i' = i - 1
    /\ pc' = "hist_next"
    /\ UNCHANGED <<dates, rates, response>>

HistPrimary ==
    /\ pc = "hist_primary"
    /\ attempted' = Append(attempted, date)
    /\ \E out \in Responses \cup {Raised} :
        /\ reqs' = <<Req("day", "primary", out)>>
        /\ IF out = Raised
             THEN HistSkip(out)
             ELSE /\ response' = out
                  /\ pc' = IF NeedsFallback(out) THEN "hist_fallback" ELSE "hist_parse"
                  /\ UNCHANGED <<i, dates, rates, fetched>>
    /\ UNCHANGED <<now, ticks, days, mainVars, date, start, chart>>

HistFallback ==
    /\ pc = "hist_fallback"
    /\ \E out \in Responses \cup {Raised} :
        /\ reqs' = Append(reqs, Req("day", "fallback", out))
        /\ IF out = Raised
             THEN HistSkip(out)
             ELSE /\ response' = out
                  /\ pc' = "hist_parse"
                  /\ UNCHANGED <<i, dates, rates, fetched>>
    /\ UNCHANGED <<now, ticks, days, mainVars, date, attempted, start, chart>>

\* Variant: a failed day leaves a None placeholder in the series.
HistAppendPlaceholder(resp, d, ds, rs) ==
    IF resp.status = 200 /\ resp.body.k = "ok"
      THEN [dates |-> Append(ds, d), rates |-> Append(rs, resp.body.val)]
      ELSE [dates |-> Append(ds, d), rates |-> Append(rs, Null)]

\* Lines 46-50: the series after this day's response (json() or a missing key
\* raises before either append).
HistAppend(resp, d, ds, rs) ==
    IF resp.status = 200 /\ resp.body.k = "ok"
      THEN [dates |-> Append(ds, d), rates |-> Append(rs, resp.body.val)]
      ELSE [dates |-> ds, rates |-> rs]

HistParse ==
    /\ pc = "hist_parse"
    /\ LET r == HistAppend(response, date, dates, rates)
       IN  /\ dates' = r.dates
           /\ rates' = r.rates
    /\ fetched' = Append(fetched, [date |-> date, out |-> response])
    /\ i' = i - 1
    /\ pc' = "hist_next"
    /\ UNCHANGED <<now, ticks, days, response, reqs, mainVars, date, attempted,
                   start, chart>>

----------------------------------------------------------------------------
\* create_currency_chart and main's guard around it

\* ((r - first) / first) * 100 on a float64 column (None became NaN;
\* division by zero gives inf or NaN, not an exception).
PctOf(r, first) ==
    IF r.t # "num" \/ first.t # "num" THEN NaN
    ELSE IF first.v = 0
      THEN IF r.v > 0 THEN PosInf ELSE IF r.v < 0 THEN NegInf ELSE NaN
      ELSE Frac((r.v - first.v) * 100, first.v)

\* Variant: >= in place of >.
DirectionGE(overall) ==
    IF Positive(overall) \/ (overall.t = "frac" /\ overall.n = 0) THEN "up" ELSE "down"

\* direction = "up" if overall_change > 0 else "down"
Direction(overall) == IF Positive(overall) THEN "up" ELSE "down"

\* A column holding only None keeps dtype object, and None - None raises.
CreateCurrencyChart(ds, rs) ==
    IF \A k \in 1..Len(rs) : rs[k].t # "num"
      THEN [outcome |-> "raised", direction |-> "", overall |-> NaN, pct |-> <<>>]
      ELSE LET first == rs[1]
               overall == PctOf(rs[Len(rs)], first)
           IN  [outcome |-> "chart",
                direction |-> Direction(overall),
                overall |-> overall,
                pct |-> [k \in 1..Len(rs) |-> PctOf(rs[k], first)]]

\* Variant: the chart is drawn without looking at the series.
HasDataAlways(ds, rs) == TRUE

\* if dates and rates:
HasData(ds, rs) == ds # <<>> /\ rs # <<>>

InsufficientData ==
    [outcome |-> "insufficient", direction |-> "", overall |-> NaN, pct |-> <<>>]

MainChart ==
    /\ pc = "main_chart"
    /\ chart' = IF HasData(dates, rates)
                  THEN CreateCurrencyChart(dates, rates)
                  ELSE InsufficientData
    /\ pc' = "done"
    /\ UNCHANGED <<now, ticks, days, response, reqs, mainVars, histVars>>

Init ==
    /\ pc = "ger_primary"
    /\ now = 0
    /\ ticks = 0
    /\ days \in 0..MaxDays
    /\ response = NoResponse
    /\ reqs = <<>>
    /\ current_rate = Unset
    /\ change = Unset
    /\ percent_change = FUnset
    /\ change_line = "none"
    /\ i = 0
    /\ date = 0
    /\ dates = <<>>
    /\ rates = <<>>
    /\ attempted = <<>>
    /\ fetched = <<>>
    /\ start = 0
    /\ chart = NoChart

Next ==
    \/ GetExchangeRatePrimary
    \/ GetExchangeRateFallback
    \/ GetExchangeRateParse
    \/ MainCheckCurrent
    \/ YesterdayPrimary
    \/ YesterdayFallback
    \/ YesterdayParse
    \/ Display
    \/ HistCall
    \/ HistNext
    \/ HistPrimary
    \/ HistFallback
    \/ HistParse
    \/ MainChart
    \/ Tick

Spec == Init /\ [][Next]_vars

----------------------------------------------------------------------------
\* Vocabulary of the properties

\* The request completed with a response (requests.get did not raise).
Completed(out) == out # Raised

\* A success status with a parseable body holding body[base][quote].
ValidSuccess(out) == out.status = 200 /\ out.body.k = "ok"

\* The fetch whose requests are `log` ended on a usable answer of either host.
PrimaryServed(log) == Len(log) >= 1 /\ ValidSuccess(log[1].out)
FallbackServed(log) ==
    /\ Len(log) = 2
    /\ Completed(log[1].out) /\ log[1].out.status # 200
    /\ ValidSuccess(log[2].out)

\* The fetch failed: its last request raised, ended on a non-success status,
\* or brought a body that is unparseable or lacks the key.
FetchFailed(log) == Len(log) >= 1 /\ ~ValidSuccess(log[Len(log)].out)

\* A fetch of the given site has run to its end, with `reqs` its requests.
LatestEnded == pc = "main_if"
DayEnded == pc = "hist_next" /\ fetched # <<>> /\ Len(reqs) >= 1 /\ reqs[1].site = "day"

\* The points a sequence of per-day results should leave in the series.
RECURSIVE PresentDates(_)
PresentDates(fs) ==
    IF fs = <<>> THEN <<>>
    ELSE LET rest == PresentDates(SubSeq(fs, 1, Len(fs) - 1))
             f == fs[Len(fs)]
         IN  IF ValidSuccess(f.out) THEN Append(rest, f.date) ELSE rest

RECURSIVE PresentRates(_)
PresentRates(fs) ==
    IF fs = <<>> THEN <<>>
    ELSE LET rest == PresentRates(SubSeq(fs, 1, Len(fs) - 1))
             f == fs[Len(fs)]
         IN  IF ValidSuccess(f.out) THEN Append(rest, f.out.body.val) ELSE rest

StrictlyIncreasing(ds) == \A k \in 1..(Len(ds) - 1) : ds[k] < ds[k + 1]

HistReturned == pc \in {"main_chart", "done"} /\ Truthy(current_rate)

----------------------------------------------------------------------------
\* C1: a fetch returns exactly body[base][quote] of the primary response when
\* the primary answers 200 with a valid body, and exactly that of the fallback
\* response when the primary answers a non-success status and the fallback
\* answers 200 with a valid body; in get_historical_rates the value returned is
\* the rate appended for that day.
C1_FetchReturnsServedValue ==
    /\ LatestEnded /\ PrimaryServed(reqs) => current_rate = reqs[1].out.body.val
    /\ LatestEnded /\ FallbackServed(reqs) => current_rate = reqs[2].out.body.val
    /\ DayEnded /\ PrimaryServed(reqs) =>
          /\ dates # <<>> /\ dates[Len(dates)] = date
          /\ rates[Len(rates)] = reqs[1].out.body.val
    /\ DayEnded /\ FallbackServed(reqs) =>
          /\ dates # <<>> /\ dates[Len(dates)] = date
          /\ rates[Len(rates)] = reqs[2].out.body.val

\* After a latest rate served by the primary, the fallback served the second
\* day of a window.
C1_Witness ==
    /\ DayEnded /\ FallbackServed(reqs) /\ Len(rates) = 2
    /\ reqs[2].out.body.val = Num(2) /\ rates[2] = Num(2) /\ rates[1] = Num(1)
    /\ current_rate = Num(-1)

\* C2: when both endpoints fail or the data is malformed, every fetch yields
\* absent (None from get_exchange_rate, no point appended by
\* get_historical_rates) and has issued at most two requests.
C2_FailedFetchIsAbsent ==
    /\ Len(reqs) <= 2
    /\ LatestEnded /\ FetchFailed(reqs) => current_rate = Null
    /\ DayEnded /\ FetchFailed(reqs) =>
          (dates = <<>> \/ dates[Len(dates)] # date)

\* C3: get_historical_rates(days = N) makes exactly N fetch attempts of at most
\* two requests each and returns at most N points with strictly increasing
\* dates and no entry for a failed day.
C3_WindowSeries ==
    /\ Len(reqs) <= 2
    /\ HistReturned =>
          /\ Len(attempted) = days
          /\ Len(fetched) = days
          /\ Len(dates) <= days
          /\ Len(rates) = Len(dates)
          /\ StrictlyIncreasing(dates)
          /\ \A k \in 1..Len(fetched) :
                FetchFailed(<<fetched[k]>>) =>
                    \A j \in 1..Len(dates) : dates[j] # fetched[k].date

\* A full window returned with a gap: two days fetched, the first one failed.
C3_Witness ==
    /\ HistReturned /\ days = 2
    /\ Len(dates) = 1
    /\ ~ValidSuccess(fetched[1].out) /\ ValidSuccess(fetched[2].out)

\* C4: with an empty series the chart step of main ends in the insufficient-data
\* outcome; create_currency_chart is never entered with an empty series.
C4_EmptySeriesIsInsufficient ==
    /\ pc = "done" /\ Truthy(current_rate) /\ rates = <<>> => chart = InsufficientData
    /\ chart.outcome \in {"chart", "raised"} => rates # <<>> /\ dates # <<>>

\* Every day of a non-empty window failed and main reported insufficient data.
C4_Witness ==
    /\ pc = "done" /\ days = 2 /\ Len(fetched) = 2 /\ rates = <<>>
    /\ chart = InsufficientData

\* C5: in main's comparison with yesterday, change and percent_change are set
\* together; when the yesterday fetch is absent they are both unset (no line) or
\* both 0; when the latest rate is absent no yesterday request is made and no
\* change line is written.
C5_ComparisonAllOrNothing ==
    /\ pc \in {"display", "hist_call"} =>
          /\ (change = Unset) <=> (percent_change = FUnset)
          /\ FetchFailed(reqs) =>
                \/ change = Unset /\ percent_change = FUnset
                \/ change = Num(0) /\ percent_change = Frac(0, 1)
    /\ pc = "hist_call" =>
          (change_line = "shown" <=> change # Unset /\ percent_change # FUnset)
    /\ pc = "done" /\ current_rate = Null =>
          /\ change_line = "none" /\ change = Unset /\ percent_change = FUnset
          /\ \A k \in 1..Len(reqs) : reqs[k].site = "latest"

\* Yesterday's body held 0: the division raised after change was assigned, and
\* the line shows 0 for both.
C5_Witness ==
    /\ pc = "hist_call"
    /\ reqs[Len(reqs)].site = "yesterday"
    /\ reqs[Len(reqs)].out = [status |-> 200, body |-> OkBody(Num(0))]
    /\ change = Num(0) /\ percent_change = Frac(0, 1) /\ change_line = "shown"

\* C6: every point of a series of get_historical_rates has rate > 0, whatever
\* the data source returns under body[base][quote].
C6_RatesPositive ==
    \A k \in 1..Len(rates) : rates[k].t = "num" /\ rates[k].v > 0

\* C7: within one fetch the primary request comes first and once, and a
\* fallback request follows, once, exactly when the primary completed with a
\* non-success status.
C7_FallbackOnlyAfterFailedPrimary ==
    /\ Len(reqs) <= 2
    /\ \A k \in 1..Len(reqs) :
          /\ reqs[k].site = reqs[1].site
          /\ reqs[k].host = IF k = 1 THEN "primary" ELSE "fallback"
    /\ Len(reqs) = 2 => Completed(reqs[1].out) /\ reqs[1].out.status # 200
    /\ /\ Len(reqs) = 1
       /\ Completed(reqs[1].out) /\ reqs[1].out.status # 200
       => pc \in {"ger_fallback", "yd_fallback", "hist_fallback"}

\* A fetch that went to the fallback after a non-success primary.
C7_Witness ==
    /\ pc = "hist_parse" /\ Len(reqs) = 2
    /\ reqs[1].out.status = 404 /\ reqs[2].out.status = 200

\* C8: the series holds exactly the days whose fetch was present, each with
\* the rate fetched for that day, in the order fetched; it is empty exactly
\* when every day failed.
C8_FailureIsolation ==
    /\ dates = PresentDates(fetched)
    /\ rates = PresentRates(fetched)
    /\ Len(dates) = Len(rates)
    /\ (dates = <<>>) <=> (\A k \in 1..Len(fetched) : ~ValidSuccess(fetched[k].out))

\* A failed first day next to a present second day.
C8_Witness ==
    /\ HistReturned /\ Len(fetched) = 2
    /\ fetched[1].out = Raised
    /\ ValidSuccess(fetched[2].out)
    /\ dates = <<fetched[2].date>> /\ rates = <<Num(2)>>

\* C9: the dates a window of N days is fetched for are the N consecutive days
\* from N days before today (the day the first date is computed on) up to
\* the day before it, oldest first, also when the clock advances during the
\* fetch.
C9_ConsecutiveDays ==
    HistReturned => attempted = [k \in 1..days |-> start - days + k - 1]

\* C10: for a non-empty series of positive rates the direction is up exactly
\* when the last rate is above the first one, and down otherwise.
C10_DirectionStrict ==
    /\ chart.outcome = "chart"
    /\ \A k \in 1..Len(rates) : rates[k].t = "num" /\ rates[k].v > 0
    => (chart.direction = "up" <=> rates[Len(rates)].v > rates[1].v)

\* A single-point series of a positive rate, classified down.
C10_Witness ==
    /\ chart.outcome = "chart" /\ Len(rates) = 1 /\ rates[1] = Num(2)
    /\ chart.direction = "down" /\ chart.overall = Frac(0, 2)
====
